---- MODULE Spec2Model ----
(***************************************************************************)
(* Model of gradcmp_optim.Optimizer (src/gradcmp_optim/optimizer.py): the  *)
(* adaptive-step continuous-momentum optimizer.                            *)
(*                                                                         *)
(* Numbers.  Python floats and tensor elements are modelled as exact       *)
(* rationals <<n, d>> (d > 0, lowest terms): rounding is not modelled.     *)
(* A tensor is a non-empty sequence of rationals; the empty sequence       *)
(* stands for None / a missing dictionary key.                             *)
(* relnorm = (a2 + b2 - 2 ab) / sqrt(a2 b2) is irrational in general: it   *)
(* is kept as the pair (numerator, a2 b2) and compared with a bound by     *)
(* squaring, which decides the same comparison.                            *)
(* math.exp(-y) is replaced by the rational 1 / (1 + y), which like        *)
(* exp(-y) is 1 at y = 0, decreasing, and strictly between 0 and 1 for     *)
(* y > 0.                                                                  *)
(* Underflow.  A double has a smallest positive value (2^-1074), and a     *)
(* quotient of at most half of it is 0.0.  TLC's integers cannot hold      *)
(* 2^1074, so FloatMin stands for that value at a scale the model can      *)
(* compute with; the specification SpecTiny starts from dt = FloatMin.     *)
(***************************************************************************)
EXTENDS Integers, Sequences, FiniteSets, TLC

\* ------------------------------------------------------------------ bounds
\* Number of step() calls explored.
MaxCalls == 2

\* --------------------------------------------------------------- rationals
Abs(n) == IF n < 0 THEN -n ELSE n

RECURSIVE Gcd(_, _)
Gcd(a, b) == IF b = 0 THEN a ELSE Gcd(b, a % b)

Rat(n, d) ==
    LET s == IF d < 0 THEN -1 ELSE 1
        k == Gcd(Abs(n), Abs(d))
    IN  <<(s * n) \div k, (s * d) \div k>>

RInt(n) == <<n, 1>>
RZero == RInt(0)
ROne == RInt(1)
\* Sums and products cancel common factors first, to keep the integers small.
RAdd(a, b) ==
    LET k == Gcd(a[2], b[2])
    IN  Rat(a[1] * (b[2] \div k) + b[1] * (a[2] \div k), (a[2] \div k) * b[2])
RNeg(a) == <<-a[1], a[2]>>
RSub(a, b) == RAdd(a, RNeg(b))
RMul(a, b) ==
    LET k1 == Gcd(Abs(a[1]), b[2])
        k2 == Gcd(Abs(b[1]), a[2])
    IN  Rat((a[1] \div k1) * (b[1] \div k2), (a[2] \div k2) * (b[2] \div k1))
\* b is not zero
RDiv(a, b) == RMul(a, Rat(b[2], b[1]))
RLt(a, b) == a[1] * b[2] < b[1] * a[2]
RLe(a, b) == a[1] * b[2] <= b[1] * a[2]
RIsZero(a) == a[1] = 0

RECURSIVE RPow(_, _)
RPow(a, k) == IF k = 0 THEN ROne ELSE RMul(a, RPow(a, k - 1))

\* The smallest positive float of the model (see the header), and a float
\* result q as the format stores it: 0 when it rounds below FloatMin.
FloatMin == Rat(1, 1024)
Underflow(q) ==
    IF RLe(RMul(RInt(2), <<Abs(q[1]), q[2]>>), FloatMin) THEN RZero ELSE q

\* math.exp(-y), y >= 0 (see the header)
ExpNeg(y) == RDiv(ROne, RAdd(ROne, y))

\* ----------------------------------------------------------------- tensors
None == <<>>
Missing == <<>>

RECURSIVE SumSeq(_)
SumSeq(s) == IF s = <<>> THEN RZero ELSE RAdd(Head(s), SumSeq(Tail(s)))

\* x.norm().pow(2).item()
NormPow2(x) == SumSeq([i \in DOMAIN x |-> RMul(x[i], x[i])])
\* (x * y).sum().item()
MulSum(x, y) == SumSeq([i \in DOMAIN x |-> RMul(x[i], y[i])])
\* torch.zeros_like(x)
ZerosLike(x) == [i \in DOMAIN x |-> RZero]
TNeg(x) == [i \in DOMAIN x |-> RNeg(x[i])]
TScale(c, x) == [i \in DOMAIN x |-> RMul(c, x[i])]
TAdd(x, y) == [i \in DOMAIN x |-> RAdd(x[i], y[i])]

\* ------------------------------------------------- the optimizer's set-up
\* The parameters: 1 and 3 are scalars, 2 is a 2-vector.
Params == {1, 2, 3}

\* The params argument of the constructor, as the 'params' lists of the
\* groups it makes: one group of two parameters, or two groups of one.
Layouts == { << <<1, 2>> >>, << <<1>>, <<3>> >> }

\* Values the parameters are constructed with.
InitData == << <<RInt(0)>>, <<RInt(0), RInt(1)>>, <<RInt(1)>> >>

\* Gradients the gradient provider (backward / closure) may leave in p.grad.
GradVals ==
    << { <<RInt(1)>>, <<RInt(-1)>> },
       { None, <<RInt(1), RInt(0)>> },
       { <<RInt(0)>>, <<RInt(1)>>, <<RInt(-1)>> } >>

\* Constructor arguments (defaults of every group).
Taus == {-1, 0, 1}
ConfDt == RInt(1)
ConfLow == RInt(2)
ConfHigh == RInt(4)

VARIABLES
    group,      \* param_groups[g]: the group dictionary
    state,      \* self.state[p]: the per-parameter dictionary
    data,       \* p.data: the live parameter value
    grad,       \* p.grad: the current gradient, or None
    calls,      \* number of step() calls made
    last        \* what the latest call did (history)

vars == <<group, state, data, grad, calls, last>>


\* ------------------------------------------------------------ dictionaries
\* A group dictionary as the constructor leaves it: the defaults, and no
\* 'step', 't' or 'accepted' key yet.
NewGroup(tau, params) ==
    [params |-> params, keys |-> {}, step |-> 0, t |-> RZero, accepted |-> FALSE,
     dt |-> ConfDt, tau |-> tau, low_bound |-> ConfLow, high_bound |-> ConfHigh]

\* self.state[p] before anything is stored in it.
NewParamState ==
    [grad |-> Missing, param |-> Missing, velocity |-> Missing,
     new_velocity |-> Missing]

NoWrites == [p \in Params |-> {}]

\* The optimizer while a call runs: its dictionaries, the exception raised
\* so far, and the history of the call (keys written, branch per group).
Running(gp, st, dat) ==
    [group |-> gp, state |-> st, data |-> dat, err |-> "none",
     wr |-> NoWrites, branch |-> [g \in DOMAIN gp |-> "none"]]

\* The parameters of a group dictionary, as a set.
ParamSet(gd) == {gd.params[i] : i \in DOMAIN gd.params}

\* ------------------------------------------------------------------- reset
\* Optimizer.reset: every group, every parameter that has a gradient.
\* resetGroup that also shrinks the step size, as a rejection does.
resetGroup_shrink(gd) ==
    [gd EXCEPT !.keys = @ \cup {"step", "t", "accepted"},
               !.step = 0, !.t = RZero, !.accepted = TRUE,
               !.dt = RDiv(@, RInt(10))]

resetGroup(gd) ==
    [gd EXCEPT !.keys = @ \cup {"step", "t", "accepted"},
               !.step = 0, !.t = RZero, !.accepted = TRUE]

\* resetParam that also drops the proposed velocity.
resetParam_forget(ps, p_data, p_grad) ==
    [ps EXCEPT !.grad = p_grad, !.param = p_data,
               !.velocity = ZerosLike(p_data), !.new_velocity = Missing]

resetParam(ps, p_data, p_grad) ==
    [ps EXCEPT !.grad = p_grad, !.param = p_data,
               !.velocity = ZerosLike(p_data)]

\* reset without the test of line 32: parameters with no gradient get
\* their position and a zero velocity stored as well.
reset_noskip(s, gr) ==
    LET own == UNION {ParamSet(s.group[g]) : g \in DOMAIN s.group} IN
    [s EXCEPT
       !.group = [g \in DOMAIN s.group |-> resetGroup(s.group[g])],
       !.state = [p \in Params |->
                    IF p \notin own THEN s.state[p]
                    ELSE resetParam(s.state[p], s.data[p], gr[p])],
       !.wr = [p \in Params |->
                 IF p \notin own THEN s.wr[p]
                 ELSE s.wr[p] \cup {"grad", "param", "velocity"}]]

reset(s, gr) ==
    LET own == UNION {ParamSet(s.group[g]) : g \in DOMAIN s.group} IN
    [s EXCEPT
       !.group = [g \in DOMAIN s.group |-> resetGroup(s.group[g])],
       !.state = [p \in Params |->
                    IF p \notin own \/ gr[p] = None THEN s.state[p]
                    ELSE resetParam(s.state[p], s.data[p], gr[p])],
       !.wr = [p \in Params |->
                 IF p \notin own \/ gr[p] = None THEN s.wr[p]
                 ELSE s.wr[p] \cup {"grad", "param", "velocity"}]]

\* ---------------------------------------------------- the acceptance test
\* Lines 60-70: a2, b2, ab over the parameters of the group that have a
\* gradient, in order.  ok = FALSE when param_state['grad'] is missing.
RECURSIVE RelSums(_, _, _, _, _)
RelSums(s, gr, ps, i, acc) ==
    IF i > Len(ps) THEN acc
    ELSE LET p == ps[i] IN
         IF gr[p] = None THEN RelSums(s, gr, ps, i + 1, acc)
         ELSE IF s.state[p].grad = Missing THEN [acc EXCEPT !.ok = FALSE]
         ELSE RelSums(s, gr, ps, i + 1,
                [acc EXCEPT
                   !.a2 = RAdd(@, NormPow2(s.state[p].grad)),
                   !.b2 = RAdd(@, NormPow2(gr[p])),
                   !.ab = RAdd(@, MulSum(s.state[p].grad, gr[p]))])

Sums(s, gr, g) ==
    RelSums(s, gr, s.group[g].params, 1,
            [ok |-> TRUE, a2 |-> RZero, b2 |-> RZero, ab |-> RZero])

\* Numerator and squared denominator of relnorm (line 71).
RelNum(sm) == RSub(RAdd(sm.a2, sm.b2), RMul(RInt(2), sm.ab))
RelDen2(sm) == RMul(sm.a2, sm.b2)

\* relnorm < bound, for RelDen2(sm) > 0.
RelnormLT(sm, bound) ==
    LET n == RelNum(sm)
        n2 == RMul(n, n)
        r2 == RMul(RMul(bound, bound), RelDen2(sm))
    IN  IF RLt(n, RZero)
        THEN RLe(RZero, bound) \/ RLt(r2, n2)
        ELSE RLt(RZero, bound) /\ RLt(n2, r2)

\* --------------------------------------------------------- accept / reject
\* Lines 81-88: the commit loop of an accepting call.  It stops with a
\* KeyError at the first parameter whose 'new_velocity' is missing, after
\* that parameter's 'grad' and 'param' have been stored.
RECURSIVE commit(_, _, _, _)
commit(s, gr, ps, i) ==
    IF i > Len(ps) THEN s
    ELSE LET p == ps[i] IN
         IF gr[p] = None THEN commit(s, gr, ps, i + 1)
         ELSE LET st1 == [s.state[p] EXCEPT !.grad = gr[p], !.param = s.data[p]]
              IN  IF st1.new_velocity = Missing
                  THEN [s EXCEPT !.state[p] = st1,
                                 !.wr[p] = @ \cup {"grad", "param"},
                                 !.err = "KeyError"]
                  ELSE commit([s EXCEPT
                                 !.state[p] = [st1 EXCEPT !.velocity = st1.new_velocity],
                                 !.wr[p] = @ \cup {"grad", "param", "velocity"}],
                              gr, ps, i + 1)

\* grow by adding a tenth instead of multiplying by 1.1.
grow_add(s, g, sm) ==
    IF RelnormLT(sm, s.group[g].low_bound)
    THEN [s EXCEPT !.group[g].dt = RAdd(@, Rat(1, 10))]
    ELSE s

\* Lines 90-91.
grow(s, g, sm) ==
    IF RelnormLT(sm, s.group[g].low_bound)
    THEN [s EXCEPT !.group[g].dt = RMul(@, Rat(11, 10))]
    ELSE s

\* accept with the elapsed time stepped backwards.
accept_back(s, gr, g, sm) ==
    LET s1 == [s EXCEPT !.group[g].t = RSub(@, s.group[g].dt),
                        !.group[g].step = @ + 1,
                        !.group[g].accepted = TRUE,
                        !.branch[g] = "accept"]
        s2 == commit(s1, gr, s.group[g].params, 1)
    IN  IF s2.err # "none" THEN s2 ELSE grow(s2, g, sm)

\* Lines 73-91.
accept(s, gr, g, sm) ==
    LET s1 == [s EXCEPT !.group[g].t = RAdd(@, s.group[g].dt),
                        !.group[g].step = @ + 1,
                        !.group[g].accepted = TRUE,
                        !.branch[g] = "accept"]
        s2 == commit(s1, gr, s.group[g].params, 1)
    IN  IF s2.err # "none" THEN s2 ELSE grow(s2, g, sm)

\* reject with the step size halved instead of divided by 10.
reject_half(s, g) ==
    [s EXCEPT !.group[g].dt = RDiv(@, RInt(2)),
              !.group[g].accepted = FALSE,
              !.branch[g] = "reject"]

\* Lines 92-94.
reject(s, g) ==
    [s EXCEPT !.group[g].dt = Underflow(RDiv(@, RInt(10))),
              !.group[g].accepted = FALSE,
              !.branch[g] = "reject"]

\* test with a division that yields NaN instead of raising: every
\* comparison with relnorm is then false, and the call rejects.
test_nan(s, gr, g) ==
    LET sm == Sums(s, gr, g) IN
    IF ~sm.ok THEN [s EXCEPT !.err = "KeyError", !.branch[g] = "test"]
    ELSE IF RIsZero(RelDen2(sm)) THEN reject(s, g)
    ELSE IF RelnormLT(sm, s.group[g].high_bound)
    THEN accept(s, gr, g, sm)
    ELSE reject(s, g)

\* Lines 59-94: the else branch of the init test.
test(s, gr, g) ==
    LET sm == Sums(s, gr, g) IN
    IF ~sm.ok THEN [s EXCEPT !.err = "KeyError", !.branch[g] = "test"]
    ELSE IF RIsZero(RelDen2(sm))
    THEN [s EXCEPT !.err = "ZeroDivisionError", !.branch[g] = "test"]
    ELSE IF RelnormLT(sm, s.group[g].high_bound)
    THEN accept(s, gr, g, sm)
    ELSE reject(s, g)

\* velocity without momentum: the tau = 0 rule for every tau.
velocity_memoryless(tau, dt, t, g_, v) == TNeg(g_)

\* ------------------------------------------------------------ the proposal
\* Lines 108-116: the new velocity from the committed gradient g_ and a
\* copy v of the committed velocity.
velocity(tau, dt, t, g_, v) ==
    IF tau > 0
    THEN LET x == ExpNeg(RDiv(dt, RInt(tau)))
         IN  TAdd(TScale(x, v), TScale(RNeg(RSub(ROne, x)), g_))
    ELSE IF tau < 0
    THEN LET x == RPow(RDiv(t, RAdd(t, dt)), -tau)
         IN  TAdd(TScale(x, v), TScale(RNeg(RSub(ROne, x)), g_))
    ELSE TNeg(g_)

\* propose moving the parameter from its live value, not from the
\* committed position.
RECURSIVE propose_live(_, _, _, _)
propose_live(s, gr, g, i) ==
    LET ps == s.group[g].params IN
    IF i > Len(ps) THEN s
    ELSE LET p == ps[i]
             gd == s.group[g]
             st == s.state[p]
         IN  IF gr[p] = None THEN propose_live(s, gr, g, i + 1)
             ELSE IF st.grad = Missing \/ st.velocity = Missing
             THEN [s EXCEPT !.err = "KeyError"]
             ELSE IF gd.tau < 0 /\ RIsZero(RAdd(gd.t, gd.dt))
             THEN [s EXCEPT !.err = "ZeroDivisionError"]
             ELSE LET v == velocity(gd.tau, gd.dt, gd.t, st.grad, st.velocity)
                      s1 == [s EXCEPT !.state[p].new_velocity = v,
                                      !.wr[p] = @ \cup {"new_velocity"}]
                  IN  IF st.param = Missing
                      THEN [s1 EXCEPT !.err = "KeyError"]
                      ELSE propose_live([s1 EXCEPT
                                      !.data[p] = TAdd(s.data[p], TScale(gd.dt, v)),
                                      !.wr[p] = @ \cup {"data"}],
                                   gr, g, i + 1)

\* Lines 97-119, in order; a missing key or t + dt = 0 (tau < 0) ends it.
RECURSIVE propose(_, _, _, _)
propose(s, gr, g, i) ==
    LET ps == s.group[g].params IN
    IF i > Len(ps) THEN s
    ELSE LET p == ps[i]
             gd == s.group[g]
             st == s.state[p]
         IN  IF gr[p] = None THEN propose(s, gr, g, i + 1)
             ELSE IF st.grad = Missing \/ st.velocity = Missing
             THEN [s EXCEPT !.err = "KeyError"]
             ELSE IF gd.tau < 0 /\ RIsZero(RAdd(gd.t, gd.dt))
             THEN [s EXCEPT !.err = "ZeroDivisionError"]
             ELSE LET v == velocity(gd.tau, gd.dt, gd.t, st.grad, st.velocity)
                      s1 == [s EXCEPT !.state[p].new_velocity = v,
                                      !.wr[p] = @ \cup {"new_velocity"}]
                  IN  IF st.param = Missing
                      THEN [s1 EXCEPT !.err = "KeyError"]
                      ELSE propose([s1 EXCEPT
                                      !.data[p] = TAdd(st.param, TScale(gd.dt, v)),
                                      !.wr[p] = @ \cup {"data"}],
                                   gr, g, i + 1)

\* -------------------------------------------------------------------- step
\* Lines 53-119: the body of the loop over the groups, for one group.
stepGroup(s, gr, g) ==
    LET s1 == IF "step" \notin s.group[g].keys
              THEN [reset(s, gr) EXCEPT !.branch[g] = "init"]
              ELSE test(s, gr, g)
    IN  IF s1.err # "none" THEN s1 ELSE propose(s1, gr, g, 1)

\* Lines 52-119: the groups in order, until an exception.
RECURSIVE stepFrom(_, _, _)
stepFrom(s, gr, g) ==
    IF g > Len(s.group) \/ s.err # "none" THEN s
    ELSE stepFrom(stepGroup(s, gr, g), gr, g + 1)

step(s, gr) == stepFrom(s, gr, 1)

\* ----------------------------------------------------------- state machine
Init ==
    /\ \E tau \in Taus, lay \in Layouts :
         group = [g \in DOMAIN lay |-> NewGroup(tau, lay[g])]
    /\ state = [p \in Params |-> NewParamState]
    /\ data = [p \in Params |-> InitData[p]]
    /\ grad = [p \in Params |-> None]
    /\ calls = 0
    /\ last = [op |-> "new", err |-> "none", wr |-> NoWrites,
               branch |-> [g \in DOMAIN group |-> "none"], closure |-> 0]

\* The constructor called with other arguments: tau from taus, params from
\* lays, and dt, low_bound, high_bound from the records of confs.  Nothing
\* in lines 17-22 looks at the values.
NewGroupConf(tau, params, c) ==
    [NewGroup(tau, params) EXCEPT !.dt = c.dt, !.low_bound = c.low,
                                  !.high_bound = c.high]

InitWith(taus, lays, confs) ==
    /\ \E tau \in taus, lay \in lays, c \in confs :
         group = [g \in DOMAIN lay |-> NewGroupConf(tau, lay[g], c)]
    /\ state = [p \in Params |-> NewParamState]
    /\ data = [p \in Params |-> InitData[p]]
    /\ grad = [p \in Params |-> None]
    /\ calls = 0
    /\ last = [op |-> "new", err |-> "none", wr |-> NoWrites,
               branch |-> [g \in DOMAIN group |-> "none"], closure |-> 0]

Cur == Running(group, state, data)
Groups == DOMAIN group
ParamsOf(g) == ParamSet(group[g])

\* The gradients the provider may leave: a value of GradVals for the
\* parameters given to the optimizer, None for the others.
GradChoices ==
    LET own == UNION {ParamsOf(g) : g \in Groups}
    IN  { gs \in [Params -> UNION {GradVals[p] : p \in Params} \cup {None}] :
            \A p \in Params :
               gs[p] \in (IF p \in own THEN GradVals[p] ELSE {None}) }

Install(s, op, ncl) ==
    /\ group' = s.group
    /\ state' = s.state
    /\ data' = s.data
    /\ last' = [op |-> op, err |-> s.err, wr |-> s.wr, branch |-> s.branch,
                closure |-> ncl]

\* The gradient provider computes gradients between calls (loss.backward()).
Backward ==
    /\ calls < MaxCalls
    /\ \E gs \in GradChoices : grad' = gs
    /\ last' = [op |-> "backward", err |-> "none", wr |-> NoWrites,
                branch |-> [g \in Groups |-> "none"], closure |-> 0]
    /\ UNCHANGED <<group, state, data, calls>>

\* optimizer.reset()
Reset ==
    /\ Install(reset(Cur, grad), "reset", 0)
    /\ UNCHANGED <<grad, calls>>

\* optimizer.step(): no closure.
Step ==
    /\ calls < MaxCalls
    /\ calls' = calls + 1
    /\ Install(step(Cur, grad), "step", 0)
    /\ UNCHANGED grad

\* step(closure) with the closure run after the loop over the groups.
StepClosure_late ==
    /\ calls < MaxCalls
    /\ calls' = calls + 1
    /\ \E gs \in GradChoices :
         /\ grad' = gs
         /\ Install(step(Cur, grad), "step", 1)

\* optimizer.step(closure): the closure runs once (line 50) and leaves the
\* gradients gs; the loop over the groups follows.
StepClosure ==
    /\ calls < MaxCalls
    /\ calls' = calls + 1
    /\ \E gs \in GradChoices :
         /\ grad' = gs
         /\ Install(step(Cur, gs), "step", 1)

Next == Backward \/ Reset \/ Step \/ StepClosure

Spec == Init /\ [][Next]_vars

\* The optimizer constructed with the smallest positive dt.
InitTiny ==
    InitWith({-1, 0}, Layouts,
             {[dt |-> FloatMin, low |-> ConfLow, high |-> ConfHigh]})

SpecTiny == InitTiny /\ [][Next]_vars

\* Constructor arguments outside the ranges the specification gives:
\* dt <= 0, low_bound >= high_bound, a bound <= 0.
BadConfs ==
    { [dt |-> RZero,    low |-> ConfLow,  high |-> ConfHigh],
      [dt |-> RInt(-1), low |-> ConfLow,  high |-> ConfHigh],
      [dt |-> ConfDt,   low |-> ConfHigh, high |-> ConfHigh],
      [dt |-> ConfDt,   low |-> ConfHigh, high |-> ConfLow],
      [dt |-> ConfDt,   low |-> RZero,    high |-> ConfHigh],
      [dt |-> ConfDt,   low |-> RInt(-4), high |-> RInt(-2)] }

InitBad == InitWith({-1, 0}, Layouts, BadConfs)

SpecBad == InitBad /\ [][Next]_vars

\* The end-to-end scenario: one scalar parameter, tau = 1, dt = 1,
\* low_bound = 0.01, high_bound = 0.1, and gradients 2, 1 or -2.
ScenarioGrads ==
    { [p \in Params |-> IF p = 1 THEN v ELSE None] :
        v \in {<<RInt(2)>>, <<RInt(1)>>, <<RInt(-2)>>} }

InitScenario ==
    InitWith({1}, { << <<1>> >> },
             {[dt |-> ROne, low |-> Rat(1, 100), high |-> Rat(1, 10)]})

BackwardScenario ==
    /\ calls < MaxCalls
    /\ \E gs \in ScenarioGrads : grad' = gs
    /\ last' = [op |-> "backward", err |-> "none", wr |-> NoWrites,
                branch |-> [g \in Groups |-> "none"], closure |-> 0]
    /\ UNCHANGED <<group, state, data, calls>>

StepClosureScenario ==
    /\ calls < MaxCalls
    /\ calls' = calls + 1
    /\ \E gs \in ScenarioGrads :
         /\ grad' = gs
         /\ Install(step(Cur, gs), "step", 1)

NextScenario == BackwardScenario \/ Reset \/ Step \/ StepClosureScenario

SpecScenario == InitScenario /\ [][NextScenario]_vars

\* One group and advance calls only: no explicit reset().
InitOne == InitWith(Taus, { << <<1, 2>> >> },
                    {[dt |-> ConfDt, low |-> ConfLow, high |-> ConfHigh]})

NextSteps == Backward \/ Step \/ StepClosure

SpecSteps == InitOne /\ [][NextSteps]_vars


\* ------------------------------------------------------------- vocabulary
\* The group has been initialized ('step' in group, line 56).
Inited(g) == "step" \in group[g].keys

\* This step is a step() call; grad' holds the gradients it works with.
StepCall == calls' = calls + 1
ResetCall == last'.op = "reset"

\* The sums of the acceptance test of group g on the state before the call.
PreSums(g) == Sums(Cur, grad', g)

\* The committed entries of a parameter.
Committed(ps) == <<ps.grad, ps.param, ps.velocity>>

\* Everything the optimizer stores for group h and its parameters.
GroupView(gp, st, dat, h) ==
    <<gp[h], [p \in ParamsOf(h) |-> st[p]], [p \in ParamsOf(h) |-> dat[p]]>>

\* ------------------------------------------------------------------ claims

\* C1: a step() call that rejects on an initialized group (relnorm >=
\* high_bound) divides dt by 10, sets accepted to False, and leaves t, step
\* and the committed gradient, position and velocity of every parameter of
\* the group as they were.
C1_RejectFrame ==
    [][\A g \in Groups :
         (StepCall /\ Inited(g) /\ last'.branch[g] = "reject") =>
            /\ ~RelnormLT(PreSums(g), group[g].high_bound)
            /\ RMul(group'[g].dt, RInt(10)) = group[g].dt
            /\ group'[g].accepted = FALSE
            /\ group'[g].t = group[g].t
            /\ group'[g].step = group[g].step
            /\ \A p \in ParamsOf(g) :
                 Committed(state'[p]) = Committed(state[p])]_vars

C1_Witness ==
    /\ last.op = "step"
    /\ last.err = "none"
    /\ \E g \in Groups : last.branch[g] = "reject" /\ group[g].dt = Rat(1, 10)

\* C2: a step() call that accepts on an initialized group adds the old dt to
\* t, adds 1 to step, sets accepted, and gives every parameter with a
\* gradient the current gradient, the current value and, as committed
\* velocity, the velocity proposed by the previous call.
C2_AcceptCommits ==
    [][\A g \in Groups :
         (StepCall /\ Inited(g) /\ last'.branch[g] = "accept") =>
            /\ group'[g].t = RAdd(group[g].t, group[g].dt)
            /\ group'[g].step = group[g].step + 1
            /\ group'[g].accepted = TRUE
            /\ \A p \in ParamsOf(g) :
                 grad'[p] # None =>
                    /\ state[p].new_velocity # Missing
                    /\ state'[p].grad = grad'[p]
                    /\ state'[p].param = data[p]
                    /\ state'[p].velocity = state[p].new_velocity]_vars

\* C3: on an accepting step() call dt becomes 1.1 dt when relnorm <
\* low_bound and stays as it was when low_bound <= relnorm < high_bound.
C3_AcceptGrowth ==
    [][\A g \in Groups :
         (StepCall /\ Inited(g) /\ last'.branch[g] = "accept") =>
            group'[g].dt =
               IF RelnormLT(PreSums(g), group[g].low_bound)
               THEN RMul(group[g].dt, Rat(11, 10))
               ELSE group[g].dt]_vars

\* C4: the first step() call on a fresh group, whichever group of the
\* optimizer it is, runs no acceptance test on it and leaves it with
\* accepted = True and step = 0.
C4_FirstCall ==
    [][\A g \in Groups :
         (StepCall /\ ~Inited(g)) =>
            /\ last'.branch[g] = "init"
            /\ group'[g].accepted = TRUE
            /\ group'[g].step = 0]_vars

\* C5: no call, failed or not, stores a parameter's committed gradient or
\* position without storing its committed velocity too.
C5_CommittedTogether ==
    \A p \in Params :
       ("grad" \in last.wr[p] \/ "param" \in last.wr[p]) =>
          {"grad", "param", "velocity"} \subseteq last.wr[p]

C7_GroupsIndependent ==
    last.op = "backward" =>
       \A g \in Groups :
          LET s1 == stepGroup(Cur, grad, g) IN
          \A h \in Groups \ {g} :
             GroupView(s1.group, s1.state, s1.data, h)
                = GroupView(group, state, data, h)

\* C8: in a step() or reset() call a parameter with no gradient adds nothing
\* to a2, b2, ab (whatever is stored for it), and its value and its stored
\* state are unchanged by the call.
Scrub(st, gr) ==
    [p \in Params |-> IF gr[p] = None THEN NewParamState ELSE st[p]]

C8_NoGradientUntouched ==
    [][(StepCall \/ ResetCall) =>
          /\ \A p \in Params :
               grad'[p] = None => state'[p] = state[p] /\ data'[p] = data[p]
          /\ \A g \in Groups :
               Sums(Running(group, Scrub(state, grad'), data), grad', g)
                  = PreSums(g)]_vars

C8_Witness ==
    /\ last.op \in {"step", "reset"}
    /\ \E p \in Params :
         /\ grad[p] = None
         /\ state[p].new_velocity # Missing
         /\ \E q \in Params : "new_velocity" \in last.wr[q]

\* C9: reset is idempotent: in every state, reset applied twice with the
\* same values and gradients leaves what reset applied once leaves.
C9_ResetIdempotent ==
    LET r1 == reset(Cur, grad)
        r2 == reset(Running(r1.group, r1.state, r1.data), grad)
    IN  /\ r2.group = r1.group
        /\ r2.state = r1.state
        /\ r2.data = r1.data

C9_Witness ==
    /\ last.op = "reset"
    /\ \E p \in Params :
         /\ "velocity" \in last.wr[p]
         /\ state[p].new_velocity # Missing

\* C10 as stated: t of an initialized group never decreases, over step()
\* and reset() calls alike.
C10_TMonotone ==
    [][\A g \in Groups : Inited(g) => RLe(group[g].t, group'[g].t)]_vars

\* C10 amended: t of an initialized group never decreases over step()
\* calls, and reset() puts it back to 0.
C10_TMonotoneSteps ==
    [][\A g \in Groups :
         /\ (Inited(g) /\ ~ResetCall) => RLe(group[g].t, group'[g].t)
         /\ ResetCall => group'[g].t = RZero]_vars

C10_Witness ==
    \E g \in Groups :
       /\ last.op = "step"
       /\ last.branch[g] = "accept"
       /\ RLt(RZero, group[g].t)


\* C11 as stated: with dt > 0 configured, dt > 0 in every reachable state.
C11_DtPositive ==
    \A g \in Groups : RLt(RZero, group[g].dt)

\* C11 amended: dt is never negative and changes only by a factor 1.1 or by
\* a division by 10, which can underflow to 0; from 0 it never moves.
C11_DtNonNegative ==
    [][\A g \in Groups :
         /\ RLe(RZero, group'[g].dt)
         /\ \/ group'[g].dt = group[g].dt
            \/ group'[g].dt = RMul(group[g].dt, Rat(11, 10))
            \/ /\ RMul(group'[g].dt, RInt(10)) = group[g].dt
               /\ RLt(FloatMin, RMul(RInt(2), group'[g].dt))
            \/ /\ RIsZero(group'[g].dt)
               /\ RLe(RMul(RInt(2), group[g].dt), RMul(RInt(10), FloatMin))
         /\ RIsZero(group[g].dt) => RIsZero(group'[g].dt)]_vars

C11_Witness ==
    \E g \in Groups :
       /\ last.op = "step"
       /\ last.branch[g] = "reject"
       /\ RIsZero(group[g].dt)

\* The gradients the call sees for group g are the committed ones, and not
\* all of them are zero (lines 61-70 with p.grad equal to param_state['grad']).
SameGradients(g) ==
    /\ \A p \in ParamsOf(g) : grad'[p] # None => state[p].grad = grad'[p]
    /\ \E p \in ParamsOf(g) :
          grad'[p] # None /\ ~RIsZero(NormPow2(grad'[p]))

\* C12: an advance call that finds an initialized group with every gradient
\* equal to the committed one, not all zero, accepts, multiplies dt by 1.1
\* and makes the velocity proposed by the previous call the committed one.
C12_SameGradientAccepts ==
    [][\A g \in Groups :
         (StepCall /\ Inited(g) /\ last'.branch[g] # "none" /\ SameGradients(g))
         => /\ last'.branch[g] = "accept"
            /\ group'[g].dt = RMul(group[g].dt, Rat(11, 10))
            /\ \A p \in ParamsOf(g) :
                  grad'[p] # None
                  => /\ state[p].new_velocity # Missing
                     /\ state'[p].velocity = state[p].new_velocity]_vars

\* C13: in a group with tau = 0, after every advance call the proposed
\* velocity of each parameter with a gradient is minus its committed gradient.
C13_ZeroMomentum ==
    [][\A g \in Groups :
         (StepCall /\ group[g].tau = 0)
         => \A p \in ParamsOf(g) :
               grad'[p] # None
               => /\ state'[p].grad # Missing
                  /\ state'[p].new_velocity = TNeg(state'[p].grad)]_vars

\* The ranges of the configuration: dt > 0 and 0 < low_bound < high_bound.
ValidConf(gp) ==
    /\ RLt(RZero, gp.dt)
    /\ RLt(RZero, gp.low_bound)
    /\ RLt(gp.low_bound, gp.high_bound)

\* C14: a configuration with dt <= 0, low_bound >= high_bound or a bound
\* <= 0 is refused by the constructor, so no advance call runs on one.
C14_InvalidRejected ==
    [][StepCall => \A g \in Groups : ValidConf(group[g])]_vars

\* The first call of the scenario: the group is not initialized and the
\* parameter's gradient is 2.
ScenarioFirstCall ==
    /\ StepCall
    /\ ~Inited(1)
    /\ group[1].tau = 1
    /\ group[1].dt = ROne
    /\ grad'[1] = <<RInt(2)>>

\* C15 as stated: the first call of the scenario commits gradient 2 and
\* velocity 0, proposes v = -2 and moves the parameter by -2.
C15_ScenarioFirstCall ==
    [][ScenarioFirstCall
       => /\ state'[1].grad = <<RInt(2)>>
          /\ state'[1].velocity = <<RZero>>
          /\ state'[1].new_velocity = <<RInt(-2)>>
          /\ data'[1] = TAdd(data[1], <<RInt(-2)>>)]_vars

\* C15 amended: the proposal is v = -(1 - exp(-1)) * 2, strictly between
\* -2 and 0, and the parameter moves by dt * v = v.
C15_ScenarioFirstCallExp ==
    [][ScenarioFirstCall
       => LET v == RNeg(RMul(RSub(ROne, ExpNeg(ROne)), RInt(2)))
          IN  /\ state'[1].grad = <<RInt(2)>>
              /\ state'[1].param = data[1]
              /\ state'[1].velocity = <<RZero>>
              /\ state'[1].new_velocity = <<v>>
              /\ RLt(RInt(-2), v) /\ RLt(v, RZero)
              /\ data'[1] = TAdd(data[1], <<v>>)]_vars

C15_Witness ==
    /\ calls = 1
    /\ last.branch[1] = "init"
    /\ group[1].tau = 1
    /\ state[1].grad = <<RInt(2)>>
    /\ state[1].velocity = <<RZero>>
    /\ data[1] = TAdd(state[1].param, state[1].new_velocity)

\* C16: an advance call invokes the closure at most once, and before it
\* reads or writes any group or parameter state: the acceptance test and
\* every gradient the call stores use the gradients the closure left;
\* without a closure nothing is invoked and the gradients are the ones
\* already there.
C16_ClosureOnceFirst ==
    [][StepCall
       => /\ last'.closure \in {0, 1}
          /\ last'.closure = 0 => grad' = grad
          /\ \A g \in Groups :
               /\ \A p \in ParamsOf(g) :
                     "grad" \in last'.wr[p] => state'[p].grad = grad'[p]
               /\ (Inited(g) /\ last'.branch[g] \in {"accept", "reject"})
                  => (last'.branch[g] = "accept"
                        <=> RelnormLT(PreSums(g), group[g].high_bound))]_vars

C16_Witness ==
    /\ last.op = "step"
    /\ last.closure = 1
    /\ \E g \in Groups : last.branch[g] = "reject"

\* C17: after every advance call that completes, each parameter that had a
\* gradient is at committed position + dt * proposed velocity, with dt and
\* the committed position as that call left them.
C17_LiveValue ==
    [][(StepCall /\ last'.err = "none")
       => \A g \in Groups : \A p \in ParamsOf(g) :
             grad'[p] # None
             => /\ state'[p].param # Missing
                /\ state'[p].new_velocity # Missing
                /\ data'[p] = TAdd(state'[p].param,
                                   TScale(group'[g].dt, state'[p].new_velocity))]_vars

C17_Witness ==
    /\ last.op = "step"
    /\ last.err = "none"
    /\ \E g \in Groups :
         /\ last.branch[g] = "reject"
         /\ \E p \in ParamsOf(g) :
              /\ grad[p] # None
              /\ data[p] # state[p].param

\* C18: the advance call that follows an explicit reset() of an initialized
\* group proposes from committed velocity 0 and from the gradient and
\* position that reset() stored, and does not make a velocity proposed
\* before the reset the committed one.
C18_ResetForgetsProposal ==
    [][\A g \in Groups :
         (StepCall /\ last.op = "reset" /\ calls >= 1
            /\ last'.branch[g] # "none")
         => \A p \in ParamsOf(g) :
               (/\ grad'[p] # None
                /\ state[p].grad # Missing
                /\ state[p].velocity = ZerosLike(data[p])
                /\ state[p].new_velocity # Missing)
               => /\ state'[p].velocity = ZerosLike(data[p])
                  /\ state'[p].new_velocity =
                        velocity(group'[g].tau, group'[g].dt, group'[g].t,
                                 state[p].grad, ZerosLike(data[p]))
                  /\ data'[p] = TAdd(state[p].param,
                                     TScale(group'[g].dt,
                                            state'[p].new_velocity))]_vars

\* C19: whichever gradients are present or absent at each call, an advance
\* call never fails because per-parameter state is missing.
C19_NoMissingState ==
    [][StepCall => last'.err # "KeyError"]_vars

\* C20: reset() changes only step, t, accepted and the committed gradient,
\* position and velocity of the parameters that have a gradient; dt (not put
\* back to its configured value), tau, the bounds, every proposed velocity
\* and every parameter value stay as they were.
C20_ResetFrame ==
    [][ResetCall
       => /\ \A g \in Groups :
               /\ group'[g].dt = group[g].dt
               /\ group'[g].tau = group[g].tau
               /\ group'[g].low_bound = group[g].low_bound
               /\ group'[g].high_bound = group[g].high_bound
               /\ group'[g].params = group[g].params
          /\ DOMAIN group' = DOMAIN group
          /\ \A p \in Params :
               /\ state'[p].new_velocity = state[p].new_velocity
               /\ data'[p] = data[p]
               /\ grad[p] = None => state'[p] = state[p]
          /\ grad' = grad]_vars

C20_Witness ==
    /\ last.op = "reset"
    /\ \E g \in Groups :
         /\ group[g].dt # ConfDt
         /\ group[g].step = 0
         /\ \E p \in ParamsOf(g) :
              /\ "velocity" \in last.wr[p]
              /\ state[p].new_velocity # Missing

====
